---- MODULE Spec2Model ----
(***************************************************************************)
(* Near-Earth-object records (models.py), the two loaders (extract.py) and *)
(* the two writers (write.py).                                             *)
(*                                                                         *)
(* One behaviour of the model is one call of one of the four functions     *)
(*   load_neos, load_approaches, write_to_csv, write_to_json               *)
(* on an input drawn from bounded pools.  Python values are tagged records *)
(* (None, str, float, nan, bool, datetime, the [] placeholder); a str is a *)
(* sequence of one-character strings so that parsing, formatting and       *)
(* concatenation are computed character by character.  A float is held in  *)
(* thousandths (n = value * 1000), which is exact for every text of the    *)
(* pools.                                                                  *)
(***************************************************************************)
EXTENDS Integers, Sequences, FiniteSets, TLC

VARIABLES
    call,        \* the function being executed
    pc,          \* its position: a loop, a file step, "returned", "raised", ...
    rows,        \* load_neos: the rows csv.DictReader yields
    data,        \* load_approaches: jsondata['data']
    idx,         \* index of the next element the running loop takes (1-based)
    neos,        \* load_neos: the local list `neos`
    approaches,  \* load_approaches: the local list `approaches`
    ret,         \* what the call handed to its caller
    exc,         \* the exception that left the call ("none" when there is none)
    fullnames,   \* NearEarthObject.fullname of each returned NEO, once read
    results,     \* write_*: the materialised `results` list
    data_list,   \* write_*: the local list `data_list`
    file,        \* the output file on disk
    fileBefore   \* the output file as it was when the write was called

vars == <<call, pc, rows, data, idx, neos, approaches, ret, exc, fullnames,
          results, data_list, file, fileBefore>>

----------------------------------------------------------------------------
(* Bounds of the model. *)

MaxNeoRows == 3
MaxEntries == 3
MaxResults == 2

----------------------------------------------------------------------------
(* Python values. *)

None == [t |-> "none"]
Str(s) == [t |-> "str", s |-> s]
Float(n) == [t |-> "float", n |-> n]
NaN == [t |-> "nan"]
Bool(b) == [t |-> "bool", b |-> b]
EmptyList == [t |-> "list"]
NoReturn == [t |-> "noreturn"]

EmptyStr == Str(<< >>)

IsNone(v) == v.t = "none"
IsStr(v) == v.t = "str"

Raise(e) == [ok |-> FALSE, exc |-> e]
Ok(v) == [ok |-> TRUE, val |-> v]

----------------------------------------------------------------------------
(* Decimal digits. *)

DigitChars == <<"0", "1", "2", "3", "4", "5", "6", "7", "8", "9">>

IsDigit(c) == \E i \in 1..Len(DigitChars) : DigitChars[i] = c

DigitVal(c) == (CHOOSE i \in 1..Len(DigitChars) : DigitChars[i] = c) - 1

AllDigits(s) == \A i \in 1..Len(s) : IsDigit(s[i])

RECURSIVE DigitsToNat(_)
DigitsToNat(s) ==
    IF Len(s) = 0 THEN 0
    ELSE DigitsToNat(SubSeq(s, 1, Len(s) - 1)) * 10 + DigitVal(s[Len(s)])

RECURSIVE NatToDigits(_)
NatToDigits(n) ==
    IF n < 10 THEN <<DigitChars[n + 1]>>
    ELSE NatToDigits(n \div 10) \o <<DigitChars[(n % 10) + 1]>>

RECURSIVE ZeroPad(_, _)
ZeroPad(s, width) == IF Len(s) >= width THEN s ELSE ZeroPad(<<"0">> \o s, width)

RECURSIVE StripLeft(_)
StripLeft(s) == IF Len(s) > 0 /\ s[1] = " " THEN StripLeft(Tail(s)) ELSE s

RECURSIVE StripRight(_)
StripRight(s) ==
    IF Len(s) > 0 /\ s[Len(s)] = " " THEN StripRight(SubSeq(s, 1, Len(s) - 1)) ELSE s

RECURSIVE StripZerosRight(_)
StripZerosRight(s) ==
    IF Len(s) > 1 /\ s[Len(s)] = "0" THEN StripZerosRight(SubSeq(s, 1, Len(s) - 1))
    ELSE s

IndexOf(s, c) ==
    IF \E i \in 1..Len(s) : s[i] = c
    THEN CHOOSE i \in 1..Len(s) : s[i] = c /\ \A j \in 1..(i - 1) : s[j] # c
    ELSE 0

----------------------------------------------------------------------------
(* float(text): surrounding blanks are dropped, then an optional sign and  *)
(* either "nan" or decimal digits with an optional point; any other text   *)
(* raises ValueError.  At most three fractional digits are kept exactly.   *)

UnsignedFloat(s) ==
    LET dot == IndexOf(s, ".")
        ip == IF dot = 0 THEN s ELSE SubSeq(s, 1, dot - 1)
        fp == IF dot = 0 THEN << >> ELSE SubSeq(s, dot + 1, Len(s))
    IN  IF s = <<"n", "a", "n">> THEN Ok(NaN)
        ELSE IF /\ AllDigits(ip) /\ AllDigits(fp)
                /\ Len(ip) + Len(fp) > 0 /\ Len(fp) <= 3
             THEN Ok(Float(DigitsToNat(ip) * 1000
                           + DigitsToNat(fp \o [i \in 1..(3 - Len(fp)) |-> "0"])))
             ELSE Raise("ValueError")

ParseFloat(s) ==
    LET b == StripRight(StripLeft(s))
        signed == Len(b) > 0 /\ b[1] \in {"-", "+"}
        u == UnsignedFloat(IF signed THEN Tail(b) ELSE b)
    IN  IF u.ok /\ signed /\ b[1] = "-" /\ u.val.t = "float"
        THEN Ok(Float(0 - u.val.n))
        ELSE u

(* str(x) of a float: the shortest decimal text, always with a point. *)
FloatToStr(v) ==
    IF v.t = "nan" THEN <<"n", "a", "n">>
    ELSE LET a == IF v.n < 0 THEN 0 - v.n ELSE v.n
             frac == StripZerosRight(ZeroPad(NatToDigits(a % 1000), 3))
         IN  (IF v.n < 0 THEN <<"-">> ELSE << >>)
             \o NatToDigits(a \div 1000) \o <<".">> \o frac

----------------------------------------------------------------------------
(* helpers.cd_to_datetime and helpers.datetime_to_str, and str(datetime).  *)
(* The calendar text is "YYYY-Mon-DD HH:MM"; the parsed value has no       *)
(* seconds, so its second is 0.                                            *)

MonthNames ==
    << <<"J", "a", "n">>, <<"F", "e", "b">>, <<"M", "a", "r">>, <<"A", "p", "r">>,
       <<"M", "a", "y">>, <<"J", "u", "n">>, <<"J", "u", "l">>, <<"A", "u", "g">>,
       <<"S", "e", "p">>, <<"O", "c", "t">>, <<"N", "o", "v">>, <<"D", "e", "c">> >>

MonthOf(name) ==
    IF \E m \in 1..Len(MonthNames) : MonthNames[m] = name
    THEN CHOOSE m \in 1..Len(MonthNames) : MonthNames[m] = name
    ELSE 0

DateTime(y, mo, d, h, mi, sec) ==
    [t |-> "datetime", year |-> y, month |-> mo, day |-> d,
     hour |-> h, minute |-> mi, second |-> sec]

cd_to_datetime(s) ==
    IF /\ Len(s) = 17
       /\ AllDigits(SubSeq(s, 1, 4)) /\ s[5] = "-"
       /\ MonthOf(SubSeq(s, 6, 8)) # 0 /\ s[9] = "-"
       /\ AllDigits(SubSeq(s, 10, 11)) /\ s[12] = " "
       /\ AllDigits(SubSeq(s, 13, 14)) /\ s[15] = ":"
       /\ AllDigits(SubSeq(s, 16, 17))
       /\ DigitsToNat(SubSeq(s, 1, 4)) >= 1
       /\ DigitsToNat(SubSeq(s, 10, 11)) \in 1..31
       /\ DigitsToNat(SubSeq(s, 13, 14)) <= 23
       /\ DigitsToNat(SubSeq(s, 16, 17)) <= 59
    THEN Ok(DateTime(DigitsToNat(SubSeq(s, 1, 4)), MonthOf(SubSeq(s, 6, 8)),
                     DigitsToNat(SubSeq(s, 10, 11)), DigitsToNat(SubSeq(s, 13, 14)),
                     DigitsToNat(SubSeq(s, 16, 17)), 0))
    ELSE Raise("ValueError")

(* "%Y-%m-%d %H:%M" of a datetime. *)
datetime_to_str(dt) ==
    ZeroPad(NatToDigits(dt.year), 4) \o <<"-">> \o ZeroPad(NatToDigits(dt.month), 2)
    \o <<"-">> \o ZeroPad(NatToDigits(dt.day), 2) \o <<" ">>
    \o ZeroPad(NatToDigits(dt.hour), 2) \o <<":">> \o ZeroPad(NatToDigits(dt.minute), 2)

(* What datetime_to_str may do with None: the helper is not told to accept *)
(* it, so both a fault and an empty text are allowed.                      *)
NullTimeOutcomes == {Raise("TypeError"), Ok(EmptyStr)}

(* str(dt) of a datetime, which the csv writer applies to a value that is  *)
(* not a string: the ISO text with a blank separator and the seconds.      *)
DatetimeStr(dt) ==
    datetime_to_str(dt) \o <<":">> \o ZeroPad(NatToDigits(dt.second), 2)

----------------------------------------------------------------------------
(* models.NearEarthObject *)

Missing(v) == IsNone(v) \/ v = EmptyStr

NeoDesignation(info) == IF Missing(info.designation) THEN None ELSE info.designation

(* Mutant: only None is taken as missing; an empty name is kept. *)
NeoName_KeepsEmpty(info) == IF IsNone(info.name) THEN None ELSE info.name

NeoName(info) == IF Missing(info.name) THEN None ELSE info.name

(* Mutant: the magnitude of the number is kept, its sign dropped. *)
NeoDiameter_Abs(info) ==
    IF Missing(info.diameter) THEN Ok(NaN)
    ELSE LET v == ParseFloat(info.diameter.s)
         IN  IF v.ok /\ v.val.t = "float" /\ v.val.n < 0 THEN Ok(Float(0 - v.val.n)) ELSE v

NeoDiameter(info) ==
    IF Missing(info.diameter) THEN Ok(NaN) ELSE ParseFloat(info.diameter.s)

(* Mutant: the flag is compared after dropping blanks and case. *)
NeoHazardous_Lenient(info) ==
    IF Missing(info.hazardous) THEN Bool(FALSE)
    ELSE Bool(StripRight(StripLeft(info.hazardous.s)) \in {<<"Y">>, <<"y">>})

NeoHazardous(info) ==
    IF Missing(info.hazardous) THEN Bool(FALSE)
    ELSE Bool(info.hazardous = Str(<<"Y">>))

NearEarthObjectInit(info) ==
    LET diameter == NeoDiameter(info)
    IN  IF ~diameter.ok THEN diameter
        ELSE Ok([t |-> "NearEarthObject",
                 designation |-> NeoDesignation(info),
                 name |-> NeoName(info),
                 diameter |-> diameter.val,
                 hazardous |-> NeoHazardous(info),
                 approaches |-> << >>])

(* a + b on two values: defined on two strings, a TypeError otherwise. *)
StrAdd(a, b) == IF IsStr(a) /\ IsStr(b) THEN Ok(Str(a.s \o b.s)) ELSE Raise("TypeError")

fullname(neo) ==
    IF IsNone(neo.name) THEN Ok(neo.designation)
    ELSE LET open == StrAdd(neo.designation, Str(<<" ", "(">>))
             named == IF open.ok THEN StrAdd(open.val, neo.name) ELSE open
         IN  IF named.ok THEN StrAdd(named.val, Str(<<")">>)) ELSE named

----------------------------------------------------------------------------
(* models.CloseApproach *)

ApproachDesignation(info) ==
    IF Missing(info._designation) THEN None ELSE info._designation

ApproachTime(info) == IF Missing(info.time) THEN Ok(None) ELSE cd_to_datetime(info.time.s)

ApproachDistance(info) ==
    IF Missing(info.distance) THEN Ok(NaN) ELSE ParseFloat(info.distance.s)

ApproachVelocity(info) ==
    IF Missing(info.velocity) THEN Ok(NaN) ELSE ParseFloat(info.velocity.s)

CloseApproachInit(info) ==
    LET time == ApproachTime(info)
        distance == ApproachDistance(info)
        velocity == ApproachVelocity(info)
    IN  IF ~time.ok THEN time
        ELSE IF ~distance.ok THEN distance
        ELSE IF ~velocity.ok THEN velocity
        ELSE Ok([t |-> "CloseApproach",
                 _designation |-> ApproachDesignation(info),
                 time |-> time.val,
                 distance |-> distance.val,
                 velocity |-> velocity.val,
                 neo |-> None])

----------------------------------------------------------------------------
(* Inputs.  A row is what csv.DictReader yields for one line of the NEO    *)
(* file: the named columns as text, None for a column a short line lacks.  *)
(* An entry is one element of the close-approach file's "data" list: its   *)
(* fields by position, as text or null.                                    *)

NeoRow(pdes, full_name, name, diameter, pha) ==
    [pdes |-> pdes, full_name |-> full_name, name |-> name,
     diameter |-> diameter, pha |-> pha]

NeoRowPool ==
    {
      NeoRow(Str(<<"4", "3", "3">>),
             Str(<<"4", "3", "3", " ", "E", "r", "o", "s">>),
             Str(<<"E", "r", "o", "s">>),
             Str(<<"1", "6", ".", "8", "4">>),
             Str(<<"N">>)),
      NeoRow(Str(<<"1", "0", "3", "6">>),
             Str(<<"1", "0", "3", "6", " ", "G", "a", "n", "y", "m", "e", "d">>),
             Str(<<"G", "a", "n", "y", "m", "e", "d">>),
             EmptyStr,
             Str(<<"Y">>)),
      NeoRow(EmptyStr,
             Str(<<"E", "r", "o", "s">>),
             Str(<<"E", "r", "o", "s">>),
             Str(<<"-", "1", ".", "5">>),
             Str(<<"y">>)),
      NeoRow(Str(<<"2", "0", "2", "0", " ", "A", "B">>),
             Str(<<"2", "0", "2", "0", " ", "A", "B">>),
             EmptyStr,
             Str(<<"a", "b", "c">>),
             EmptyStr),
      NeoRow(None,
             None,
             None,
             None,
             None),
      NeoRow(Str(<<"4", "3", "3">>),
             Str(<<"4", "3", "3">>),
             EmptyStr,
             Str(<<"n", "a", "n">>),
             Str(<<" ", "Y">>))
    }

CadPool ==
    {
      <<Str(<<"4", "3", "3">>),
        Str(<<"7">>),
        Str(<<"2", ".", "5">>),
        Str(<<"1", "9", "0", "0", "-", "J", "a", "n", "-", "0", "1", " ", "0", "0", ":", "3", "0">>),
        Str(<<"0", ".", "2", "5">>),
        Str(<<"0", ".", "2">>),
        Str(<<"0", ".", "3">>),
        Str(<<"5", ".", "5">>)>>,
      <<Str(<<"1", "0", "3", "6">>),
        Str(<<"7">>),
        Str(<<"2", ".", "5">>),
        Str(<<"2", "0", "2", "0", "-", "D", "e", "c", "-", "3", "1", " ", "2", "3", ":", "5", "9">>),
        EmptyStr,
        Str(<<"0", ".", "2">>),
        Str(<<"0", ".", "3">>),
        Str(<<"-", "3", ".", "2">>)>>,
      <<Str(<<"4", "3", "3">>),
        Str(<<"7">>),
        Str(<<"2", ".", "5">>),
        Str(<<"1", "9", "0", "0", "-", "J", "a", "n", "-", "0", "1", " ", "0", "0", ":", "3", "0">>),
        Str(<<"a", "b", "c">>),
        Str(<<"0", ".", "2">>),
        Str(<<"0", ".", "3">>),
        Str(<<"5", ".", "5">>)>>,
      <<EmptyStr,
        None,
        Str(<<"2", ".", "5">>),
        None,
        Str(<<"0", ".", "5">>),
        Str(<<"0", ".", "2">>),
        Str(<<"0", ".", "3">>),
        EmptyStr>>,
      <<Str(<<"1", "0", "3", "6">>),
        Str(<<"7">>),
        Str(<<"2", ".", "5">>),
        Str(<<"b", "a", "d">>),
        Str(<<"0", ".", "2", "5">>),
        Str(<<"0", ".", "2">>),
        Str(<<"0", ".", "3">>),
        Str(<<"5", ".", "5">>)>>,
      <<None,
        Str(<<"7">>),
        Str(<<"2", ".", "5">>),
        EmptyStr,
        Str(<<"1", "2">>),
        Str(<<"0", ".", "2">>),
        Str(<<"0", ".", "3">>),
        None>>
    }

SeqsUpTo(S, n) == UNION {[1..k -> S] : k \in 0..n}

----------------------------------------------------------------------------
(* extract.load_neos and extract.load_approaches *)

Returned(items) == [t |-> "returned", items |-> items]

(* each_d[i]: Python positions count from 0. *)
PyIndex(seq, i) == seq[i + 1]

NeoKwargs(row) ==
    [designation |-> row.pdes, name |-> row.name,
     diameter |-> row.diameter, hazardous |-> row.pha]

(* Mutant: the distance is read one position too far (dist_min). *)
ApproachKwargs_WrongPosition(each_d) ==
    [_designation |-> PyIndex(each_d, 0), time |-> PyIndex(each_d, 3),
     distance |-> PyIndex(each_d, 5), velocity |-> PyIndex(each_d, 7)]

ApproachKwargs(each_d) ==
    [_designation |-> PyIndex(each_d, 0), time |-> PyIndex(each_d, 3),
     distance |-> PyIndex(each_d, 4), velocity |-> PyIndex(each_d, 7)]

(* Mutant: a row that cannot be constructed is skipped. *)
LoadNeosStep_SkipsBadRow ==
    /\ call = "load_neos" /\ pc = "loop" /\ idx <= Len(rows)
    /\ LET made == NearEarthObjectInit(NeoKwargs(rows[idx]))
       IN  neos' = IF made.ok THEN Append(neos, made.val) ELSE neos
    /\ idx' = idx + 1
    /\ UNCHANGED <<call, pc, exc, rows, data, approaches, ret, fullnames,
                   results, data_list, file, fileBefore>>

LoadNeosStep ==
    /\ call = "load_neos" /\ pc = "loop" /\ idx <= Len(rows)
    /\ LET made == NearEarthObjectInit(NeoKwargs(rows[idx]))
       IN  IF made.ok
           THEN /\ neos' = Append(neos, made.val)
                /\ idx' = idx + 1
                /\ UNCHANGED <<pc, exc>>
           ELSE /\ pc' = "raised"
                /\ exc' = made.exc
                /\ UNCHANGED <<neos, idx>>
    /\ UNCHANGED <<call, rows, data, approaches, ret, fullnames,
                   results, data_list, file, fileBefore>>

LoadNeosReturn ==
    /\ call = "load_neos" /\ pc = "loop" /\ idx > Len(rows)
    /\ pc' = "returned"
    /\ ret' = Returned(neos)
    /\ UNCHANGED <<call, rows, data, idx, neos, approaches, exc, fullnames,
                   results, data_list, file, fileBefore>>

(* The caller reads the fullname property of every NEO it was handed. *)
ReadFullnames ==
    /\ call = "load_neos" /\ pc = "returned"
    /\ pc' = "inspected"
    /\ fullnames' = [i \in 1..Len(ret.items) |-> fullname(ret.items[i])]
    /\ UNCHANGED <<call, rows, data, idx, neos, approaches, ret, exc,
                   results, data_list, file, fileBefore>>

LoadApproachesStep ==
    /\ call = "load_approaches" /\ pc = "loop" /\ idx <= Len(data)
    /\ LET made == CloseApproachInit(ApproachKwargs(data[idx]))
       IN  IF made.ok
           THEN /\ approaches' = Append(approaches, made.val)
                /\ idx' = idx + 1
                /\ UNCHANGED <<pc, exc>>
           ELSE /\ pc' = "raised"
                /\ exc' = made.exc
                /\ UNCHANGED <<approaches, idx>>
    /\ UNCHANGED <<call, rows, data, neos, ret, fullnames,
                   results, data_list, file, fileBefore>>

LoadApproachesReturn ==
    /\ call = "load_approaches" /\ pc = "loop" /\ idx > Len(data)
    /\ pc' = "returned"
    /\ ret' = Returned(approaches)
    /\ UNCHANGED <<call, rows, data, idx, neos, approaches, exc, fullnames,
                   results, data_list, file, fileBefore>>

----------------------------------------------------------------------------
(* The output file.  Its content is the sequence of things written to it:  *)
(* the csv header line, csv rows (each a sequence of field texts), or the  *)
(* JSON document json.dump wrote.                                          *)

Absent == [t |-> "absent"]
FileOf(lines) == [t |-> "file", lines |-> lines]
OldFile == FileOf(<<[old |-> "earlier output"]>>)

(* open(filename, 'w'): the file exists and is empty afterwards. *)
OpenForWriting == FileOf(<< >>)

WriteLines(f, lines) == FileOf(f.lines \o lines)

----------------------------------------------------------------------------
(* write.write_to_csv *)

CsvFieldnames ==
    <<"datetime_utc", "distance_au", "velocity_km_s", "designation", "name",
      "diameter_km", "potentially_hazardous">>

Range(seq) == {seq[i] : i \in 1..Len(seq)}

Placeholders(keys) == [key \in keys |-> EmptyList]

(* v or '': a None or an empty text gives ''. *)
OrEmpty(v) == IF IsNone(v) \/ v = EmptyStr THEN EmptyStr ELSE v

CsvData(result) ==
    [Placeholders(Range(CsvFieldnames)) EXCEPT
        !.datetime_utc = result.time,
        !.distance_au = result.distance,
        !.velocity_km_s = result.velocity,
        !.designation = result.neo.designation,
        !.name = OrEmpty(result.neo.name),
        !.diameter_km = Str(FloatToStr(result.neo.diameter)),
        !.potentially_hazardous = result.neo.hazardous]

(* The text csv.DictWriter writes for a value: '' for None, a str as it    *)
(* is, str(value) for anything else.                                       *)
CsvField(v) ==
    CASE v.t = "none" -> << >>
      [] v.t = "str" -> v.s
      [] v.t \in {"float", "nan"} -> FloatToStr(v)
      [] v.t = "bool" -> IF v.b THEN <<"T", "r", "u", "e">>
                         ELSE <<"F", "a", "l", "s", "e">>
      [] v.t = "datetime" -> DatetimeStr(v)
      [] v.t = "list" -> <<"[", "]">>

CsvRow(d) == [i \in 1..Len(CsvFieldnames) |-> CsvField(d[CsvFieldnames[i]])]

(* Mutant: each record is put at the front of data_list. *)
CsvBuildStep_Prepends ==
    /\ call = "write_to_csv" /\ pc = "build" /\ idx <= Len(results)
    /\ IF IsNone(results[idx].neo)
       THEN /\ pc' = "raised"
            /\ exc' = "AttributeError"
            /\ UNCHANGED <<data_list, idx>>
       ELSE /\ data_list' = <<CsvData(results[idx])>> \o data_list
            /\ idx' = idx + 1
            /\ UNCHANGED <<pc, exc>>
    /\ UNCHANGED <<call, rows, data, neos, approaches, ret, fullnames,
                   results, file, fileBefore>>

(* Mutant: the file is opened for writing around the loop, not after it. *)
CsvBuildStep_FileOpened ==
    /\ call = "write_to_csv" /\ pc = "build" /\ idx <= Len(results)
    /\ file' = OpenForWriting
    /\ IF IsNone(results[idx].neo)
       THEN /\ pc' = "raised"
            /\ exc' = "AttributeError"
            /\ UNCHANGED <<data_list, idx>>
       ELSE /\ data_list' = Append(data_list, CsvData(results[idx]))
            /\ idx' = idx + 1
            /\ UNCHANGED <<pc, exc>>
    /\ UNCHANGED <<call, rows, data, neos, approaches, ret, fullnames,
                   results, fileBefore>>

CsvBuildStep ==
    /\ call = "write_to_csv" /\ pc = "build" /\ idx <= Len(results)
    /\ IF IsNone(results[idx].neo)
       THEN /\ pc' = "raised"
            /\ exc' = "AttributeError"
            /\ UNCHANGED <<data_list, idx>>
       ELSE /\ data_list' = Append(data_list, CsvData(results[idx]))
            /\ idx' = idx + 1
            /\ UNCHANGED <<pc, exc>>
    /\ UNCHANGED <<call, rows, data, neos, approaches, ret, fullnames,
                   results, file, fileBefore>>

CsvOpen ==
    /\ call = "write_to_csv" /\ pc = "build" /\ idx > Len(results)
    /\ file' = OpenForWriting
    /\ pc' = "header"
    /\ UNCHANGED <<call, rows, data, idx, neos, approaches, ret, exc, fullnames,
                   results, data_list, fileBefore>>

CsvWriteHeader ==
    /\ call = "write_to_csv" /\ pc = "header"
    /\ file' = WriteLines(file, <<[header |-> CsvFieldnames]>>)
    /\ pc' = "rows"
    /\ UNCHANGED <<call, rows, data, idx, neos, approaches, ret, exc, fullnames,
                   results, data_list, fileBefore>>

CsvWriteRows ==
    /\ call = "write_to_csv" /\ pc = "rows"
    /\ file' = WriteLines(file, [i \in 1..Len(data_list) |-> [row |-> CsvRow(data_list[i])]])
    /\ pc' = "done"
    /\ UNCHANGED <<call, rows, data, idx, neos, approaches, ret, exc, fullnames,
                   results, data_list, fileBefore>>

----------------------------------------------------------------------------
(* write.write_to_json *)

JsonFieldnames == <<"datetime_utc", "distance_au", "velocity_km_s", "neo">>

NeoFieldNames == <<"designation", "name", "diameter_km", "potentially_hazardous">>

(* datetime_to_str(result.time) as write_to_json calls it. *)
TimeText(time) ==
    IF IsNone(time) THEN NullTimeOutcomes ELSE {Ok(Str(datetime_to_str(time)))}

(* Mutant: the diameter is written as its text, as the csv writer does. *)
JsonData_DiameterAsText(result, datetime_utc) ==
    [Placeholders(Range(JsonFieldnames)) EXCEPT
        !.datetime_utc = datetime_utc,
        !.distance_au = result.distance,
        !.velocity_km_s = result.velocity,
        !.neo = [Placeholders(Range(NeoFieldNames)) EXCEPT
                    !.designation = result.neo.designation,
                    !.name = OrEmpty(result.neo.name),
                    !.diameter_km = Str(FloatToStr(result.neo.diameter)),
                    !.potentially_hazardous = result.neo.hazardous]]

JsonData(result, datetime_utc) ==
    [Placeholders(Range(JsonFieldnames)) EXCEPT
        !.datetime_utc = datetime_utc,
        !.distance_au = result.distance,
        !.velocity_km_s = result.velocity,
        !.neo = [Placeholders(Range(NeoFieldNames)) EXCEPT
                    !.designation = result.neo.designation,
                    !.name = OrEmpty(result.neo.name),
                    !.diameter_km = result.neo.diameter,
                    !.potentially_hazardous = result.neo.hazardous]]

(* json.dump: the JSON value written for a Python value.  A datetime has   *)
(* no JSON form (TypeError).                                               *)
JsonScalar(v) ==
    CASE v.t = "none" -> [j |-> "null"]
      [] v.t = "str" -> [j |-> "string", s |-> v.s]
      [] v.t = "float" -> [j |-> "number", n |-> v.n]
      [] v.t = "nan" -> [j |-> "number", literal |-> "NaN"]
      [] v.t = "bool" -> [j |-> "boolean", b |-> v.b]
      [] v.t = "list" -> [j |-> "array", items |-> << >>]
      [] v.t = "datetime" -> [j |-> "TypeError"]

JsonDict(d) == [j |-> "object", members |-> [k \in DOMAIN d |-> JsonScalar(d[k])]]

JsonMember(v) == IF "t" \in DOMAIN v THEN JsonScalar(v) ELSE JsonDict(v)

JsonObject(d) == [j |-> "object", members |-> [k \in DOMAIN d |-> JsonMember(d[k])]]

JsonArray(list) == [j |-> "array", items |-> [i \in 1..Len(list) |-> JsonObject(list[i])]]

Serializable(d) ==
    \A k \in DOMAIN d :
        IF "t" \in DOMAIN d[k] THEN d[k].t # "datetime"
        ELSE \A n \in DOMAIN d[k] : d[k][n].t # "datetime"

JsonBuildStep ==
    /\ call = "write_to_json" /\ pc = "build" /\ idx <= Len(results)
    /\ \E text \in TimeText(results[idx].time) :
        IF ~text.ok
        THEN /\ pc' = "raised"
             /\ exc' = text.exc
             /\ UNCHANGED <<data_list, idx>>
        ELSE IF IsNone(results[idx].neo)
        THEN /\ pc' = "raised"
             /\ exc' = "AttributeError"
             /\ UNCHANGED <<data_list, idx>>
        ELSE /\ data_list' = Append(data_list, JsonData(results[idx], text.val))
             /\ idx' = idx + 1
             /\ UNCHANGED <<pc, exc>>
    /\ UNCHANGED <<call, rows, data, neos, approaches, ret, fullnames,
                   results, file, fileBefore>>

JsonOpen ==
    /\ call = "write_to_json" /\ pc = "build" /\ idx > Len(results)
    /\ file' = OpenForWriting
    /\ pc' = "dump"
    /\ UNCHANGED <<call, rows, data, idx, neos, approaches, ret, exc, fullnames,
                   results, data_list, fileBefore>>

JsonDump ==
    /\ call = "write_to_json" /\ pc = "dump"
    /\ IF \A i \in 1..Len(data_list) : Serializable(data_list[i])
       THEN /\ file' = WriteLines(file, <<[json |-> JsonArray(data_list)]>>)
            /\ pc' = "done"
            /\ UNCHANGED exc
       ELSE /\ pc' = "raised"
            /\ exc' = "TypeError"
            /\ UNCHANGED file
    /\ UNCHANGED <<call, rows, data, idx, neos, approaches, ret, fullnames,
                   results, data_list, fileBefore>>

----------------------------------------------------------------------------
(* The approaches a writer is handed.  Each is a constructed CloseApproach *)
(* whose neo is still None, or one the database has linked to a            *)
(* constructed NearEarthObject with its designation.                       *)

ConstructedNeos ==
    {NearEarthObjectInit(NeoKwargs(r)).val :
        r \in {q \in NeoRowPool : NearEarthObjectInit(NeoKwargs(q)).ok}}

ConstructedApproaches ==
    {CloseApproachInit(ApproachKwargs(e)).val :
        e \in {q \in CadPool : CloseApproachInit(ApproachKwargs(q)).ok}}

Linked(approach, neo) == [approach EXCEPT !.neo = neo]

ResultPool ==
    ConstructedApproaches
    \cup {Linked(a, n) : <<a, n>> \in
            {p \in ConstructedApproaches \X ConstructedNeos :
                p[1]._designation = p[2].designation}}

----------------------------------------------------------------------------
(* One call of one function. *)

Idle ==
    /\ pc = "loop" \/ pc = "build"
    /\ idx = 1
    /\ neos = << >> /\ approaches = << >>
    /\ ret = NoReturn /\ exc = "none"
    /\ fullnames = << >> /\ data_list = << >>

InitLoadNeos ==
    /\ call = "load_neos" /\ pc = "loop"
    /\ rows \in SeqsUpTo(NeoRowPool, MaxNeoRows)
    /\ data = << >> /\ results = << >>
    /\ file = Absent /\ fileBefore = Absent

InitLoadApproaches ==
    /\ call = "load_approaches" /\ pc = "loop"
    /\ data \in SeqsUpTo(CadPool, MaxEntries)
    /\ rows = << >> /\ results = << >>
    /\ file = Absent /\ fileBefore = Absent

InitWrite ==
    /\ call \in {"write_to_csv", "write_to_json"} /\ pc = "build"
    /\ results \in SeqsUpTo(ResultPool, MaxResults)
    /\ file \in {Absent, OldFile} /\ fileBefore = file
    /\ rows = << >> /\ data = << >>

Init == Idle /\ (InitLoadNeos \/ InitLoadApproaches \/ InitWrite)

Next ==
    \/ LoadNeosStep
    \/ LoadNeosReturn
    \/ ReadFullnames
    \/ LoadApproachesStep
    \/ LoadApproachesReturn
    \/ CsvBuildStep
    \/ CsvOpen
    \/ CsvWriteHeader
    \/ CsvWriteRows
    \/ JsonBuildStep
    \/ JsonOpen
    \/ JsonDump

Spec == Init /\ [][Next]_vars

----------------------------------------------------------------------------
(* Claims about the record model and the loaders. *)

Loading == call \in {"load_neos", "load_approaches"}

HasSuffix(s, suffix) ==
    /\ Len(s) >= Len(suffix)
    /\ SubSeq(s, Len(s) - Len(suffix) + 1, Len(s)) = suffix

C1_FullnameWithDesignation ==
    (call = "load_neos" /\ pc = "inspected") =>
        \A i \in 1..Len(ret.items) :
            LET neo == ret.items[i]
            IN  IsStr(neo.designation) =>
                    /\ fullnames[i].ok
                    /\ fullnames[i].val =
                         IF IsNone(neo.name) THEN neo.designation
                         ELSE Str(neo.designation.s \o <<" ", "(">> \o neo.name.s \o <<")">>)

(* The raw text of each field of the record the loader builds from source *)
(* element i, and the records built so far.                                *)
Built == IF call = "load_neos" THEN neos ELSE approaches

Source == IF call = "load_neos" THEN rows ELSE data

NumericTexts(i) ==
    IF call = "load_neos" THEN {rows[i].diameter}
    ELSE {PyIndex(data[i], 4), PyIndex(data[i], 7)}

Unparseable(v) == ~Missing(v) /\ ~ParseFloat(v.s).ok

BadTime(i) ==
    /\ call = "load_approaches"
    /\ ~Missing(PyIndex(data[i], 3))
    /\ ~cd_to_datetime(PyIndex(data[i], 3).s).ok

Normalised(raw) == IF Missing(raw) THEN None ELSE raw

NumberOf(raw) == IF Missing(raw) THEN NaN ELSE ParseFloat(raw.s).val

TimeOf(raw) == IF Missing(raw) THEN None ELSE cd_to_datetime(raw.s).val

(* Every field of every record built so far whose raw input is missing or  *)
(* empty holds its sentinel, and no field holds the empty string.          *)
SentinelsHold ==
    /\ call = "load_neos" =>
        \A i \in 1..Len(neos) :
            /\ Missing(rows[i].pdes) => neos[i].designation = None
            /\ Missing(rows[i].name) => neos[i].name = None
            /\ Missing(rows[i].diameter) => neos[i].diameter = NaN
            /\ Missing(rows[i].pha) => neos[i].hazardous = Bool(FALSE)
            /\ \A k \in {"designation", "name", "diameter", "hazardous"} :
                    neos[i][k] # EmptyStr
    /\ call = "load_approaches" =>
        \A i \in 1..Len(approaches) :
            /\ Missing(PyIndex(data[i], 0)) => approaches[i]._designation = None
            /\ Missing(PyIndex(data[i], 3)) => approaches[i].time = None
            /\ Missing(PyIndex(data[i], 4)) => approaches[i].distance = NaN
            /\ Missing(PyIndex(data[i], 7)) => approaches[i].velocity = NaN
            /\ \A k \in {"_designation", "time", "distance", "velocity", "neo"} :
                    approaches[i][k] # EmptyStr

(* C2 as stated: construction always yields a record (no load is ever left *)
(* by an exception of a constructor), and every field whose raw input is   *)
(* missing or empty holds its sentinel; no field is the empty string.      *)
C2_AlwaysConstructed == Loading => (pc # "raised" /\ SentinelsHold)

(* C2 as amended: construction yields a record unless a non-empty numeric  *)
(* text does not parse as a number or a non-empty time text does not parse *)
(* as a timestamp; a missing designation never prevents it.  In every      *)
(* record built, each field whose raw input is missing or empty holds its  *)
(* sentinel, and no field is the empty string.                             *)
C2_ConstructedWithSentinels ==
    Loading =>
        /\ SentinelsHold
        /\ Len(Built) = idx - 1
        /\ pc = "raised" =>
            /\ idx <= Len(Source)
            /\ BadTime(idx) \/ \E v \in NumericTexts(idx) : Unparseable(v)

C2_Witness ==
    /\ call = "load_neos" /\ pc = "returned"
    /\ \E i \in 1..Len(rows) : rows[i].pdes = EmptyStr /\ neos[i].designation = None
    /\ \E i \in 1..Len(rows) : IsNone(rows[i].diameter) /\ neos[i].diameter = NaN

(* C3: the constructed NEO's hazardous is a boolean, true exactly when the *)
(* raw flag is the single character Y.                                     *)
C3_HazardousIffY ==
    call = "load_neos" =>
        \A i \in 1..Len(neos) :
            /\ neos[i].hazardous.t = "bool"
            /\ neos[i].hazardous.b <=> (rows[i].pha = Str(<<"Y">>))

C3_Witness ==
    /\ call = "load_neos" /\ pc = "returned"
    /\ \E i \in 1..Len(rows) : rows[i].pha = Str(<<"Y">>) /\ neos[i].hazardous.b
    /\ \E i \in 1..Len(rows) : rows[i].pha = Str(<<" ", "Y">>) /\ ~neos[i].hazardous.b

(* C7: a load that returns hands back one record per source element, in    *)
(* source order; a CloseApproach is built from positions 0, 3, 4 and 7 of  *)
(* its entry, a NearEarthObject from the pdes, name, diameter and pha      *)
(* columns of its row.                                                     *)
C7_OnePerElementInOrder ==
    /\ (call = "load_approaches" /\ pc = "returned") =>
        /\ Len(ret.items) = Len(data)
        /\ \A i \in 1..Len(data) :
            /\ ret.items[i]._designation = Normalised(data[i][1])
            /\ ret.items[i].time = TimeOf(data[i][4])
            /\ ret.items[i].distance = NumberOf(data[i][5])
            /\ ret.items[i].velocity = NumberOf(data[i][8])
    /\ (call = "load_neos" /\ pc \in {"returned", "inspected"}) =>
        /\ Len(ret.items) = Len(rows)
        /\ \A i \in 1..Len(rows) :
            /\ ret.items[i].designation = Normalised(rows[i].pdes)
            /\ ret.items[i].name = Normalised(rows[i].name)
            /\ ret.items[i].diameter = NumberOf(rows[i].diameter)
            /\ ret.items[i].hazardous.b = (rows[i].pha = Str(<<"Y">>))

C7_Witness ==
    /\ call = "load_approaches" /\ pc = "returned"
    /\ Len(data) >= 2 /\ data[1] # data[2]
    /\ ret.items[1].distance # ret.items[2].distance

NumericFields(record) ==
    IF record.t = "NearEarthObject" THEN {record.diameter}
    ELSE {record.distance, record.velocity}

(* C8 as stated: every optional numeric field of every constructed record  *)
(* is the not-a-number sentinel or a non-negative number.                  *)
C8_NonNegative ==
    Loading =>
        \A i \in 1..Len(Built) : \A v \in NumericFields(Built[i]) :
            v = NaN \/ (v.t = "float" /\ v.n >= 0)

LeadingMinus(raw) ==
    LET b == StripLeft(raw.s) IN Len(b) > 0 /\ b[1] = "-"

NumberKept(raw, v) ==
    /\ v = NumberOf(raw)
    /\ v = NaN \/ (v.t = "float" /\ (v.n < 0 => LeadingMinus(raw)))

(* C8 as amended: every optional numeric field is the not-a-number         *)
(* sentinel or exactly the number its source text denotes, sign included:  *)
(* it is non-negative whenever the text carries no minus sign, and a       *)
(* negative text gives a negative number, which the constructor keeps.     *)
C8_NumberOfText ==
    /\ call = "load_neos" =>
        \A i \in 1..Len(neos) : NumberKept(rows[i].diameter, neos[i].diameter)
    /\ call = "load_approaches" =>
        \A i \in 1..Len(approaches) :
            /\ NumberKept(PyIndex(data[i], 4), approaches[i].distance)
            /\ NumberKept(PyIndex(data[i], 7), approaches[i].velocity)

C8_Witness ==
    /\ call = "load_neos" /\ pc = "returned"
    /\ \E i \in 1..Len(neos) : neos[i].diameter.t = "float" /\ neos[i].diameter.n < 0
    /\ \E i \in 1..Len(neos) : neos[i].diameter.t = "float" /\ neos[i].diameter.n > 0

BadNumeric(i) == \E v \in NumericTexts(i) : Unparseable(v)

(* C9: when some source record, at any position, has a non-empty numeric   *)
(* field that does not parse as a number, the load never returns: nothing  *)
(* is handed to the caller, the loop never gets past the first such        *)
(* record, no record is built from it, and the load is left by the         *)
(* ValueError.                                                             *)
C9_BadNumberFailsLoad ==
    (Loading /\ \E i \in 1..Len(Source) : BadNumeric(i)) =>
        LET first == CHOOSE i \in 1..Len(Source) :
                        BadNumeric(i) /\ \A j \in 1..(i - 1) : ~BadNumeric(j)
        IN  /\ pc \in {"loop", "raised"}
            /\ ret = NoReturn
            /\ idx <= first
            /\ Len(Built) < first
            /\ pc = "raised" => exc = "ValueError"
            /\ (pc = "loop" /\ idx = first) => ~ENABLED (LoadNeosReturn \/ LoadApproachesReturn)

C9_Witness ==
    /\ call = "load_neos" /\ pc = "raised" /\ exc = "ValueError"
    /\ idx = 2 /\ Len(neos) = 1 /\ BadNumeric(2) /\ ret = NoReturn

----------------------------------------------------------------------------
(* Claims about the writers. *)

Writing == call \in {"write_to_csv", "write_to_json"}

CsvDone == call = "write_to_csv" /\ pc = "done"

JsonDone == call = "write_to_json" /\ pc = "done"

(* The csv row and the JSON object written for results[i]. *)
RowOf(i) == file.lines[i + 1].row

ObjectOf(i) == file.lines[1].json.items[i].members

TextOf(v) == IF IsNone(v) THEN << >> ELSE v.s

NumberJson(v) ==
    IF v = NaN THEN [j |-> "number", literal |-> "NaN"] ELSE [j |-> "number", n |-> v.n]

TextJson(v) == IF IsNone(v) THEN [j |-> "null"] ELSE [j |-> "string", s |-> v.s]

(* C4: every datetime_utc that write_to_csv writes is the approach's       *)
(* timestamp at minute precision, YYYY-MM-DD HH:MM, with no seconds field: *)
(* the text write_to_json writes for that approach.                        *)
C4_MinutePrecision ==
    CsvDone =>
        \A i \in 1..Len(results) :
            ~IsNone(results[i].time) =>
                /\ Len(RowOf(i)[1]) = Len(<<"Y", "Y", "Y", "Y", "-", "M", "M", "-", "D", "D",
                                           " ", "H", "H", ":", "M", "M">>)
                /\ RowOf(i)[1] = datetime_to_str(results[i].time)

(* What write_to_json does write, for comparison with C4. *)
C4_JsonMinutePrecision ==
    JsonDone =>
        \A i \in 1..Len(results) :
            ~IsNone(results[i].time) =>
                ObjectOf(i).datetime_utc = [j |-> "string", s |-> datetime_to_str(results[i].time)]

C6_FieldsOfEachRecord ==
    /\ CsvDone =>
        \A i \in 1..Len(results) :
            LET a == results[i]
                d == data_list[i]
            IN  /\ DOMAIN d = Range(CsvFieldnames)
                /\ \A k \in DOMAIN d : d[k] # EmptyList
                /\ d.distance_au = a.distance
                /\ d.velocity_km_s = a.velocity
                /\ d.designation = a.neo.designation
                /\ d.potentially_hazardous = a.neo.hazardous
                /\ d.potentially_hazardous.t = "bool"
                /\ d.name = IF IsNone(a.neo.name) THEN EmptyStr ELSE a.neo.name
                /\ (d.name = EmptyStr) <=> IsNone(a.neo.name)
                /\ d.diameter_km.t = "str"
                /\ d.diameter_km.s = FloatToStr(a.neo.diameter)
                /\ a.neo.diameter = NaN => d.diameter_km.s = <<"n", "a", "n">>
                /\ Len(RowOf(i)) = Len(CsvFieldnames)
                /\ RowOf(i)[2] = FloatToStr(a.distance)
                /\ RowOf(i)[3] = FloatToStr(a.velocity)
                /\ RowOf(i)[4] = TextOf(a.neo.designation)
                /\ RowOf(i)[5] = TextOf(a.neo.name)
                /\ RowOf(i)[6] = d.diameter_km.s
                /\ RowOf(i)[7] = IF a.neo.hazardous.b THEN <<"T", "r", "u", "e">>
                                 ELSE <<"F", "a", "l", "s", "e">>
    /\ JsonDone =>
        \A i \in 1..Len(results) :
            LET a == results[i]
                o == ObjectOf(i)
            IN  /\ DOMAIN o = Range(JsonFieldnames)
                /\ o.neo.j = "object"
                /\ DOMAIN o.neo.members = Range(NeoFieldNames)
                /\ \A k \in DOMAIN o : o[k].j # "array"
                /\ \A k \in DOMAIN o.neo.members : o.neo.members[k].j # "array"
                /\ o.distance_au = NumberJson(a.distance)
                /\ o.velocity_km_s = NumberJson(a.velocity)
                /\ o.neo.members.designation = TextJson(a.neo.designation)
                /\ o.neo.members.name =
                     [j |-> "string", s |-> IF IsNone(a.neo.name) THEN << >> ELSE a.neo.name.s]
                /\ o.neo.members.diameter_km.j = "number"
                /\ o.neo.members.diameter_km = NumberJson(a.neo.diameter)
                /\ o.neo.members.potentially_hazardous =
                     [j |-> "boolean", b |-> a.neo.hazardous.b]

C6_Witness ==
    /\ JsonDone
    /\ \E i \in 1..Len(results) :
        /\ IsNone(results[i].neo.name)
        /\ results[i].neo.diameter = NaN
        /\ ObjectOf(i).neo.members.name = [j |-> "string", s |-> << >>]
    /\ \E i \in 1..Len(results) :
        /\ IsStr(results[i].neo.name)
        /\ results[i].neo.diameter.t = "float"

(* C10: both writers build every output record before the output file is  *)
(* opened: while records are built, and after a write has failed, the file *)
(* is what it was when the write was called (absent, or its old content);  *)
(* once it is opened every record has been built; a results with an        *)
(* unlinked approach never gets as far as opening the file.                *)
C10_FailedWriteLeavesFile ==
    Writing =>
        /\ pc \in {"build", "raised"} => file = fileBefore
        /\ pc \notin {"build", "raised"} => Len(data_list) = Len(results)
        /\ (\E i \in 1..Len(results) : IsNone(results[i].neo)) =>
            /\ pc \in {"build", "raised"}
            /\ pc = "build" => idx <= Len(results)

C10_Witness ==
    /\ call = "write_to_csv" /\ pc = "raised" /\ exc = "AttributeError"
    /\ fileBefore = OldFile /\ file = OldFile
    /\ Len(data_list) >= 1

====
